---- MODULE Spec2Model ----
(***************************************************************************)
(* State-machine model of app/services/gemini_service.py (etho-backend):   *)
(*   parse_json_response          - the response extractor                 *)
(*   validate_and_enrich_response - the schema normalizer                  *)
(*   analyze_video                - the orchestrator (with the two helpers *)
(*                                  upload_video_to_gemini and             *)
(*                                  analyze_video_with_gemini)             *)
(*                                                                         *)
(* A text is a sequence of lexical units.  A unit is the smallest chunk    *)
(* that json.loads and the two regular expressions of the extractor treat  *)
(* as a whole: one structural character, one whitespace character, one     *)
(* literal, the three-backtick fence, the word "json", or one other        *)
(* character.  The texts that are long enough for the [:1000] slice to cut *)
(* are built from one-character units only, so that the slice counts       *)
(* characters there.                                                       *)
(*                                                                         *)
(* A Python value is a tagged record; a dict is a TLA+ function from key   *)
(* strings to values, a str is a sequence of words and whitespace units.   *)
(***************************************************************************)
EXTENDS Integers, Sequences, FiniteSets, TLC

\* ------------------------------------------------------------------------
\* Bounds of the model
\* ------------------------------------------------------------------------
\* longest text enumerated exhaustively over Alphabet
MaxTextLen == 5
\* most words enumerated in an interpretation line
MaxWords == 8
\* highest distress score enumerated
MaxScore == 101
\* most polls of the ingestion status that still answer PROCESSING
MaxPolls == 2

\* ------------------------------------------------------------------------
\* Python values
\* ------------------------------------------------------------------------
Num(n) == [t |-> "num", n |-> n]
Str(s) == [t |-> "str", s |-> s]
Bool(b) == [t |-> "bool", b |-> b]
None == [t |-> "none"]
List(items) == [t |-> "list", items |-> items]
Dict(m) == [t |-> "dict", m |-> m]

EmptyMap == [k \in {} |-> None]

IsDict(v) == v.t = "dict"

\* d[k] = v on a dict's mapping
Put(m, k, v) == [x \in (DOMAIN m) \cup {k} |-> IF x = k THEN v ELSE m[x]]

\* Python truthiness (bool(v))
Truthy(v) ==
    CASE v.t = "num" -> v.n # 0
      [] v.t = "str" -> Len(v.s) > 0
      [] v.t = "bool" -> v.b
      [] v.t = "none" -> FALSE
      [] v.t = "list" -> Len(v.items) > 0
      [] v.t = "dict" -> DOMAIN v.m # {}

\* Python v == False: False itself, and the numbers equal to it
EqFalse(v) ==
    CASE v.t = "bool" -> ~v.b
      [] v.t = "num" -> v.n = 0
      [] OTHER -> FALSE

\* dict.get(key) with the default None
Get(d, k) == IF k \in DOMAIN d.m THEN d.m[k] ELSE None
\* dict.get(key, default)
GetOr(d, k, dflt) == IF k \in DOMAIN d.m THEN d.m[k] ELSE dflt

\* ------------------------------------------------------------------------
\* Texts
\* ------------------------------------------------------------------------
U(k, s, n) == [k |-> k, s |-> s, n |-> n]
\* a run of characters other than the ones below (a word)
Word(s) == U("x", s, 0)
\* the str made of the one word s
W(s) == Str(<<Word(s)>>)
LB == U("p", "{", 0)
RB == U("p", "}", 0)
LK == U("p", "[", 0)
RK == U("p", "]", 0)
COLON == U("p", ":", 0)
COMMA == U("p", ",", 0)
SP == U("w", " ", 0)
NL == U("w", "\n", 0)
\* form feed: whitespace to the regular expressions (\s), not to json.loads
FF == U("w", "\f", 0)
\* the fence of a code block: three backticks
FENCE == U("f", "fence", 0)
JSONTAG == U("j", "json", 0)
X == Word("x")
\* a string literal "s", a number literal n, and true / false / null
S(s) == U("s", s, 0)
N(n) == U("n", "", n)
TRUELIT == U("l", "true", 0)
FALSELIT == U("l", "false", 0)
NULLLIT == U("l", "null", 0)

\* \s of the re module
IsReWs(u) == u.k = "w"
\* the whitespace json.loads skips: space, \t, \n, \r
IsJsonWs(u) == u.k = "w" /\ u.s # "\f"

\* text[a:b] with 0-based a (inclusive) and b (exclusive), as Python slices
Slice(text, a, b) ==
    LET lo == IF a < 0 THEN 0 ELSE a
        hi == IF b > Len(text) THEN Len(text) ELSE b
    IN IF hi <= lo THEN <<>> ELSE SubSeq(text, lo + 1, hi)

Min(set) == CHOOSE x \in set : \A y \in set : x <= y
Max(set) == CHOOSE x \in set : \A y \in set : x >= y

\* ------------------------------------------------------------------------
\* json.loads
\* ------------------------------------------------------------------------
Fail == [ok |-> FALSE]
Ok(v, nxt) == [ok |-> TRUE, v |-> v, nxt |-> nxt]

\* index of the first unit at or after i that json.loads does not skip
SkipWs(text, i) ==
    LET stops == {j \in i..Len(text) : ~IsJsonWs(text[j])}
    IN IF stops = {} THEN Len(text) + 1 ELSE Min(stops)

RECURSIVE JsonValue(_, _), JsonMembers(_, _, _), JsonElements(_, _, _)

\* one JSON value starting at unit i
JsonValue(text, i) ==
    IF i > Len(text) THEN Fail
    ELSE LET u == text[i] IN
         CASE u.k = "n" -> Ok(Num(u.n), i + 1)
           [] u.k = "s" -> Ok(W(u.s), i + 1)
           [] u = TRUELIT -> Ok(Bool(TRUE), i + 1)
           [] u = FALSELIT -> Ok(Bool(FALSE), i + 1)
           [] u = NULLLIT -> Ok(None, i + 1)
           [] u = LB ->
                LET j == SkipWs(text, i + 1)
                IN IF j <= Len(text) /\ text[j] = RB
                   THEN Ok(Dict(EmptyMap), j + 1)
                   ELSE JsonMembers(text, j, EmptyMap)
           [] u = LK ->
                LET j == SkipWs(text, i + 1)
                IN IF j <= Len(text) /\ text[j] = RK
                   THEN Ok(List(<<>>), j + 1)
                   ELSE JsonElements(text, j, <<>>)
           [] OTHER -> Fail

\* "key": value pairs up to the closing brace; a repeated key keeps the last
JsonMembers(text, i, m) ==
    IF i > Len(text) \/ text[i].k # "s" THEN Fail
    ELSE LET c == SkipWs(text, i + 1)
         IN IF c > Len(text) \/ text[c] # COLON THEN Fail
            ELSE LET r == JsonValue(text, SkipWs(text, c + 1))
                 IN IF ~r.ok THEN Fail
                    ELSE LET e == SkipWs(text, r.nxt)
                             m2 == Put(m, text[i].s, r.v)
                         IN IF e > Len(text) THEN Fail
                            ELSE IF text[e] = RB THEN Ok(Dict(m2), e + 1)
                            ELSE IF text[e] = COMMA
                                 THEN JsonMembers(text, SkipWs(text, e + 1), m2)
                            ELSE Fail

\* values up to the closing bracket
JsonElements(text, i, items) ==
    LET r == JsonValue(text, i)
    IN IF ~r.ok THEN Fail
       ELSE LET e == SkipWs(text, r.nxt)
                items2 == Append(items, r.v)
            IN IF e > Len(text) THEN Fail
               ELSE IF text[e] = RK THEN Ok(List(items2), e + 1)
               ELSE IF text[e] = COMMA
                    THEN JsonElements(text, SkipWs(text, e + 1), items2)
               ELSE Fail

\* json.loads(text): ok = FALSE stands for a raised json.JSONDecodeError
json_loads(text) ==
    LET r == JsonValue(text, SkipWs(text, 1))
    IN IF r.ok /\ SkipWs(text, r.nxt) > Len(text)
       THEN [ok |-> TRUE, v |-> r.v]
       ELSE Fail

\* ------------------------------------------------------------------------
\* parse_json_response
\* ------------------------------------------------------------------------
NoMatch == [found |-> FALSE]
Match(g) == [found |-> TRUE, group |-> g]

\* re.search(r'```(?:json)?\s*([\s\S]*?)\s*```', text), group(1).
\* The leftmost fence that has a later fence opens the match; (?:json)? and
\* the first \s* are greedy; the group is lazy, so it ends at the earliest
\* unit from which only whitespace remains before the next fence.
FenceSearch(text) ==
    LET fences == {i \in 1..Len(text) : text[i] = FENCE}
    IN IF Cardinality(fences) < 2 THEN NoMatch
       ELSE LET o == Min(fences)
                c == Min(fences \ {o})
                p == IF text[o + 1] = JSONTAG THEN o + 2 ELSE o + 1
                q == Min({j \in p..c : ~IsReWs(text[j])})
                e == Min({j \in q..c : \A k \in j..(c - 1) : IsReWs(text[k])})
            IN Match(SubSeq(text, q, e - 1))

\* re.search(r'\{[\s\S]*\}', text), group(0): first '{' through last '}'
BraceSearch(text) ==
    LET opens == {i \in 1..Len(text) : text[i] = LB}
        closes == {i \in 1..Len(text) : text[i] = RB}
    IN IF opens = {} \/ closes = {} \/ Max(closes) < Min(opens) THEN NoMatch
       ELSE Match(SubSeq(text, Min(opens), Max(closes)))

\* the slice bound of raw_response
RawLimit == 1000
ParseFailureMessage == W("Failed to parse JSON response")

\* the error structure returned when no strategy parses
ParseFailure(response_text) ==
    Dict([error |-> Bool(TRUE),
          error_type |-> W("parse_error"),
          message |-> ParseFailureMessage,
          raw_response |-> Str(Slice(response_text, 0, RawLimit))])

\* variant: the brace span is tried before the fenced block
parse_json_response_BraceFirst(response_text) ==
    LET direct == json_loads(response_text)
        block == FenceSearch(response_text)
        fenced == IF block.found THEN json_loads(block.group) ELSE Fail
        span == BraceSearch(response_text)
        braced == IF span.found THEN json_loads(span.group) ELSE Fail
    IN IF direct.ok THEN direct.v
       ELSE IF braced.ok THEN braced.v
       ELSE IF fenced.ok THEN fenced.v
       ELSE ParseFailure(response_text)

parse_json_response(response_text) ==
    LET direct == json_loads(response_text)
        block == FenceSearch(response_text)
        fenced == IF block.found THEN json_loads(block.group) ELSE Fail
        span == BraceSearch(response_text)
        braced == IF span.found THEN json_loads(span.group) ELSE Fail
    IN IF direct.ok THEN direct.v
       ELSE IF fenced.ok THEN fenced.v
       ELSE IF braced.ok THEN braced.v
       ELSE ParseFailure(response_text)

\* ------------------------------------------------------------------------
\* validate_and_enrich_response
\* ------------------------------------------------------------------------
Raised(exc) == [raised |-> TRUE, exc |-> exc]
Returned(v) == [raised |-> FALSE, v |-> v]

\* the defaults dict, built afresh by every call
Defaults ==
    Dict([pet_detected |-> Bool(TRUE),
          species |-> W("unknown"),
          breed_detected |-> W("unknown"),
          morphology_type |-> W("standard"),
          morphology_adjustments_applied |-> List(<<>>),
          video_type |-> W("single_shot"),
          video_context |-> W("Pet video analysis"),
          overall_assessment |->
              Dict([distress_score |-> Num(50),
                    zone |-> W("yellow"),
                    zone_label |-> W("MODERATE"),
                    confidence |-> W("medium"),
                    primary_state |-> W("alert"),
                    summary |-> W("Analysis in progress")]),
          visual_analysis |->
              Dict([facs_codes_detected |-> List(<<>>),
                    key_observations |-> List(<<>>),
                    body_posture |-> W("Not assessed"),
                    confidence |-> W("medium")]),
          audio_analysis |->
              Dict([vocalizations_detected |-> List(<<>>),
                    solicitation_purr_detected |-> Bool(FALSE)]),
          timeline |-> List(<<>>),
          interpret_lines |-> List(<<>>),
          advisory |->
              Dict([headline |-> W("Continue monitoring"),
                    detailed_recommendations |-> List(<<>>),
                    urgency |-> W("routine")])])

\* variant: the defaults are written over the sub-keys that are there
FillSubkeysOverwrite(sub, dsub) ==
    [k \in (DOMAIN sub) \cup (DOMAIN dsub) |->
        IF k \in DOMAIN dsub THEN dsub[k] ELSE sub[k]]

\* the inner loop of the merge: default sub-keys the sub-dict lacks
FillSubkeys(sub, dsub) ==
    [k \in (DOMAIN sub) \cup (DOMAIN dsub) |->
        IF k \in DOMAIN sub THEN sub[k] ELSE dsub[k]]

\* the merge loop over defaults.items(), on the mapping m of result
MergeDefaults(m) ==
    [k \in (DOMAIN m) \cup (DOMAIN Defaults.m) |->
        IF k \notin DOMAIN m THEN Defaults.m[k]
        ELSE IF k \in DOMAIN Defaults.m /\ IsDict(Defaults.m[k]) /\ IsDict(m[k])
             THEN Dict(FillSubkeys(m[k].m, Defaults.m[k].m))
        ELSE m[k]]

\* the values Python orders against an int: int, and bool as 0 / 1
IsOrderable(v) == v.t \in {"num", "bool"}
AsInt(v) == IF v.t = "bool" THEN (IF v.b THEN 1 ELSE 0) ELSE v.n

\* variant: the thresholds compared with < instead of <=
ZoneOfStrict(distress) ==
    IF distress < 33 THEN <<"green", "LOW">>
    ELSE IF distress < 66 THEN <<"yellow", "MODERATE">>
    ELSE <<"red", "ELEVATED">>

\* the zone and zone_label the thresholds give a distress score
ZoneOf(distress) ==
    IF distress <= 33 THEN <<"green", "LOW">>
    ELSE IF distress <= 66 THEN <<"yellow", "MODERATE">>
    ELSE <<"red", "ELEVATED">>

\* str.split(): the maximal runs of non-whitespace units
IsSpace(u) == u.k = "w"
RECURSIVE SplitFrom(_, _, _, _)
SplitFrom(text, i, cur, acc) ==
    IF i > Len(text) THEN (IF cur = <<>> THEN acc ELSE Append(acc, cur))
    ELSE IF IsSpace(text[i])
         THEN SplitFrom(text, i + 1, <<>>, IF cur = <<>> THEN acc ELSE Append(acc, cur))
    ELSE SplitFrom(text, i + 1, Append(cur, text[i]), acc)
Split(text) == SplitFrom(text, 1, <<>>, <<>>)

\* " ".join(words)
RECURSIVE Join(_)
Join(words) ==
    IF words = <<>> THEN <<>>
    ELSE IF Len(words) = 1 THEN words[1]
    ELSE words[1] \o <<SP>> \o Join(Tail(words))

\* the word cap of an interpretation line
WordCap == 6

\* variant: a line over the cap loses its last word only
TruncateLineDropLast(text) ==
    LET words == Split(text)
    IN IF Len(words) > WordCap THEN Join(SubSeq(words, 1, Len(words) - 1)) ELSE text

\* variant: a line is rewritten from the cap on, not only above it
TruncateLineAtCap(text) ==
    LET words == Split(text)
    IN IF Len(words) >= WordCap THEN Join(SubSeq(words, 1, WordCap)) ELSE text

\* the new value of line["first_person_interpretation"]
TruncateLine(text) ==
    LET words == Split(text)
    IN IF Len(words) > WordCap THEN Join(SubSeq(words, 1, WordCap)) ELSE text

FPI == "first_person_interpretation"

\* "first_person_interpretation" in line
HasFPI(line) ==
    CASE line.t = "dict" -> FPI \in DOMAIN line.m
      [] line.t = "list" -> \E i \in 1..Len(line.items) : line.items[i] = W(FPI)
      [] line.t = "str" -> \E i \in 1..Len(line.s) : line.s[i] = Word(FPI)
      [] OTHER -> FALSE

\* the exception one pass of the loop body raises on line, or "" for none
LineExc(line) ==
    IF line.t \in {"num", "bool", "none"} THEN "TypeError"
    ELSE IF ~HasFPI(line) THEN ""
    ELSE IF line.t # "dict" THEN "TypeError"
    ELSE IF line.m[FPI].t # "str" THEN "AttributeError"
    ELSE ""

\* the line after one pass of the loop body that raises nothing
FixLine(line) ==
    IF line.t = "dict" /\ FPI \in DOMAIN line.m
    THEN Dict(Put(line.m, FPI, Str(TruncateLine(line.m[FPI].s))))
    ELSE line

\* one character of a str that is iterated: never as long as the key
Char == U("c", "", 0)

\* the lines the for loop visits: list items, dict keys, str characters
Iterated(il) ==
    CASE il.t = "list" -> il.items
      [] il.t = "dict" ->
            LET keys == DOMAIN il.m
                RECURSIVE Enum(_)
                Enum(ks) == IF ks = {} THEN <<>>
                            ELSE LET k == CHOOSE x \in ks : TRUE
                                 IN <<W(k)>> \o Enum(ks \ {k})
            IN Enum(keys)
      [] il.t = "str" -> [i \in 1..Len(il.s) |-> Str(<<Char>>)]
      [] OTHER -> <<>>

\* interpret_lines after the loop (a list's dicts are changed in place)
FixLines(il) ==
    IF il.t = "list" THEN List([i \in 1..Len(il.items) |-> FixLine(il.items[i])])
    ELSE il

validate_and_enrich_response(result) ==
    LET merged == MergeDefaults(result.m)
        oa == merged["overall_assessment"]
        distress == GetOr(oa, "distress_score", Num(50))
        zone == ZoneOf(AsInt(distress))
        zoned == Put(merged, "overall_assessment",
                     Dict(Put(Put(oa.m, "zone", W(zone[1])), "zone_label", W(zone[2]))))
        il == zoned["interpret_lines"]
        lines == Iterated(il)
        bad == {i \in 1..Len(lines) : LineExc(lines[i]) # ""}
    IN IF ~IsDict(oa) THEN Raised("AttributeError")
       ELSE IF ~IsOrderable(distress) THEN Raised("TypeError")
       ELSE IF il.t \in {"num", "bool", "none"} THEN Raised("TypeError")
       ELSE IF bad # {} THEN Raised(LineExc(lines[Min(bad)]))
       ELSE Returned(Dict(Put(zoned, "interpret_lines", FixLines(il))))

\* ------------------------------------------------------------------------
\* Inputs of the extractor
\* ------------------------------------------------------------------------
Alphabet == {FENCE, JSONTAG, SP, LB, RB, N(1), X, S("a"), COLON}

\* units are maximal: two number literals never touch (they would be one)
WellLexed(text) ==
    \A i \in 1..(Len(text) - 1) : ~(text[i].k = "n" /\ text[i + 1].k = "n")

BoundedTexts ==
    {text \in UNION {[1..k -> Alphabet] : k \in 0..MaxTextLen} : WellLexed(text)}

Pad(n) == [i \in 1..n |-> X]

\* texts around the slice bound, of one-character units
LongTexts ==
    {Pad(RawLimit - 1), Pad(RawLimit), Pad(RawLimit + 1),
     <<LB>> \o Pad(RawLimit), Pad(RawLimit) \o <<RB>>,
     <<LB>> \o Pad(RawLimit) \o <<RB>>,
     <<FENCE, LB>> \o Pad(RawLimit) \o <<FENCE>>}

ObjA1 == <<LB, S("a"), COLON, N(1), RB>>

CuratedTexts ==
    {\* noise ```json\n{"a":1}\n``` trailing
     <<X, SP, FENCE, JSONTAG, NL>> \o ObjA1 \o <<NL, FENCE, SP, X>>,
     ObjA1,
     <<SP>> \o ObjA1 \o <<NL>>,
     <<X, SP>> \o ObjA1 \o <<SP, X>>,
     \* valid JSON that is not an object
     <<LK, RK>>, <<LK, N(1), COMMA, N(2), RK>>, <<S("a")>>, <<NULLLIT>>,
     <<TRUELIT>>, <<FALSELIT>>, <<LK, LB, RB, RK>>,
     <<FENCE, LK, N(1), RK, FENCE>>, <<FENCE, JSONTAG, NULLLIT, FENCE>>,
     \* a fenced block and a brace span that both parse
     <<X, FENCE, N(1), FENCE, LB, RB>>,
     <<LB, RB, FENCE, N(1), FENCE>>,
     <<FENCE, JSONTAG, SP, LB, RB, SP, FENCE, LB, S("a"), COLON, N(1), RB>>,
     \* a first block that does not parse before one that does
     <<FENCE, X, FENCE, FENCE, LB, RB, FENCE>>,
     <<FENCE, X, FENCE, X, FENCE, N(1), FENCE>>,
     \* form feed: stripped around the block, not skipped by json.loads
     <<FENCE, FF, LB, RB, FF, FENCE>>, <<FF, LB, RB>>, <<LB, FF, RB>>,
     <<FENCE, LB, FF, RB, FENCE>>,
     \* members, nesting, a repeated key, a trailing comma
     <<LB, S("a"), COLON, N(1), COMMA, S("b"), COLON, LB, RB, RB>>,
     <<LB, S("a"), COLON, N(1), COMMA, S("a"), COLON, N(2), RB>>,
     <<LB, S("a"), COLON, N(1), COMMA, RB>>,
     <<LB, S("a"), COLON, LB, S("b"), COLON, LK, TRUELIT, RK, RB, RB>>,
     <<X, LB, S("a"), COLON, LB, RB, RB, RB>>,
     <<LB, RB, X, LB, RB>>}

Texts == BoundedTexts \cup LongTexts \cup CuratedTexts

\* ------------------------------------------------------------------------
\* Inputs of the normalizer
\* ------------------------------------------------------------------------
\* the i-th word of an enumerated line
Wd(i) == U("x", "w", i)

Separators == {<<SP>>, <<SP, SP>>, <<NL>>}

RECURSIVE WordsFrom(_, _, _)
WordsFrom(i, n, sep) ==
    IF i > n THEN <<>>
    ELSE IF i = n THEN <<Wd(i)>>
    ELSE <<Wd(i)>> \o sep \o WordsFrom(i + 1, n, sep)

LineText(n, sep, lead, trail) ==
    (IF lead THEN <<SP>> ELSE <<>>) \o WordsFrom(1, n, sep)
        \o (IF trail THEN <<NL>> ELSE <<>>)

LineTexts ==
    {LineText(n, sep, lead, trail) :
        n \in 0..MaxWords, sep \in Separators, lead \in BOOLEAN, trail \in BOOLEAN}

\* interpret_lines entries that carry a text
TextEntries ==
    {Dict([first_person_interpretation |-> Str(text)]) : text \in LineTexts}
    \cup {Dict([first_person_interpretation |-> Str(LineText(n, <<SP, SP>>, FALSE, FALSE)),
                timestamp |-> Num(n)]) : n \in (WordCap - 1)..MaxWords}

\* entries without a text, and entries the loop body raises on
OtherEntries ==
    {Dict([timestamp |-> Num(1)]), Dict(EmptyMap), List(<<>>), W("hello"),
     Dict([first_person_interpretation |-> Num(1)]),
     Dict([first_person_interpretation |-> None]),
     Num(3), None, W(FPI), List(<<W(FPI)>>)}

PairEntries ==
    {Dict([first_person_interpretation |-> Str(LineText(n, <<SP>>, FALSE, FALSE))]) :
        n \in {WordCap, WordCap + 1, MaxWords}}
    \cup {Dict([timestamp |-> Num(1)]), Num(3)}

LineLists ==
    {List(<<e>>) : e \in TextEntries \cup OtherEntries}
    \cup {List(<<e1, e2>>) : e1 \in PairEntries, e2 \in PairEntries}

ZonesIn == {"", "green", "yellow", "red"}
LabelsIn == {"", "LOW", "MODERATE", "ELEVATED"}

\* an overall_assessment with a score and the zone / label given ("" = none)
Assessment(score, zone, label) ==
    LET m0 == [distress_score |-> score]
        m1 == IF zone = "" THEN m0 ELSE Put(m0, "zone", W(zone))
        m2 == IF label = "" THEN m1 ELSE Put(m1, "zone_label", W(label))
    IN Dict(m2)

ScoreInputs ==
    {Dict([overall_assessment |-> Assessment(Num(sc), z, l)]) :
        sc \in (-1)..MaxScore, z \in ZonesIn, l \in LabelsIn}
    \cup {Dict([overall_assessment |-> Assessment(sc, "red", "LOW")]) :
            sc \in {Bool(TRUE), Bool(FALSE), W("high"), None, List(<<>>)}}

LineInputs ==
    {Dict([interpret_lines |-> ll]) : ll \in LineLists}
    \cup {Dict([interpret_lines |-> ll,
                overall_assessment |-> Assessment(Num(10), "red", "ELEVATED")]) :
            ll \in {List(<<e>>) : e \in PairEntries}}

\* mappings that lack top-level keys or sub-keys, or hold another type there
ShapeInputs ==
    {Dict(EmptyMap),
     Dict([species |-> W("dog")]),
     Dict([pet_detected |-> Bool(TRUE), species |-> W("cat"), extra |-> Num(7)]),
     Dict([overall_assessment |-> Dict(EmptyMap)]),
     Dict([overall_assessment |-> Dict([confidence |-> W("high")])]),
     Dict([overall_assessment |-> Dict([zone |-> W("red")])]),
     Dict([visual_analysis |-> Dict([body_posture |-> W("crouched")])]),
     Dict([visual_analysis |-> Dict([nested |-> Dict(EmptyMap)]),
           audio_analysis |-> Dict(EmptyMap)]),
     Dict([advisory |-> Dict([urgency |-> W("urgent")]), timeline |-> List(<<Num(1)>>)]),
     Dict([advisory |-> W("none"), visual_analysis |-> None]),
     Dict([species |-> None, timeline |-> None]),
     Dict([overall_assessment |-> Num(5)]),
     Dict([overall_assessment |-> None]),
     Dict([overall_assessment |-> List(<<>>)]),
     Dict([overall_assessment |-> W("fine")]),
     Dict([interpret_lines |-> None]),
     Dict([interpret_lines |-> Num(2)]),
     Dict([interpret_lines |-> Str(<<Wd(1), SP, Wd(2)>>)]),
     Dict([interpret_lines |-> Dict([first_person_interpretation |-> W("hi")])]),
     Dict([interpret_lines |-> Dict([other |-> W("hi")])])}

\* a value other than the default for each canonical key; the nested
\* mappings hold one default sub-key, one sub-key of their own and, one
\* level further down, a mapping that lacks everything
Sample ==
    [pet_detected |-> Bool(TRUE),
     species |-> W("cat"),
     breed_detected |-> W("siamese"),
     morphology_type |-> W("brachycephalic"),
     morphology_adjustments_applied |-> List(<<W("flat face")>>),
     video_type |-> W("compilation"),
     video_context |-> W("At the vet"),
     overall_assessment |->
         Dict([distress_score |-> Num(70), summary |-> Dict(EmptyMap)]),
     visual_analysis |->
         Dict([body_posture |-> W("crouched"), own |-> Dict([confidence |-> None])]),
     audio_analysis |->
         Dict([solicitation_purr_detected |-> Bool(TRUE), own |-> Num(1)]),
     timeline |-> List(<<Dict([timestamp |-> Num(1)])>>),
     interpret_lines |-> List(<<Dict([timestamp |-> Num(1)])>>),
     advisory |-> Dict([urgency |-> Dict(EmptyMap), own |-> List(<<>>)])]

\* the mappings that hold a subset of the canonical keys
SubsetInputs ==
    {Dict([k \in keys |-> Sample[k]]) : keys \in SUBSET (DOMAIN Sample)}

NormInputs == ScoreInputs \cup LineInputs \cup ShapeInputs \cup SubsetInputs

\* ------------------------------------------------------------------------
\* Inputs of the orchestrator: what the remote service may answer
\* ------------------------------------------------------------------------
\* an exception: its class and str(e)
Exc(cls, msg) == [cls |-> cls, msg |-> msg]

\* the faults a remote call raises
Faults ==
    {Exc("ConnectionError", "network error"),
     Exc("GoogleAPIError", "remote error"),
     Exc("DeadlineExceeded", "timeout")}

\* the classes except Exception catches (KeyboardInterrupt and SystemExit are not)
ExceptionClasses ==
    {"ValueError", "AttributeError", "TypeError",
     "ConnectionError", "GoogleAPIError", "DeadlineExceeded"}
\* variant: except ValueError
CatchesValueErrorOnly(cls) == cls = "ValueError"
Catches(cls) == cls \in ExceptionClasses

\* variant: the loop tests for a name the service never reports
StateProcessingOtherName(state_name) == state_name = "PENDING"
\* video_file.state.name == "PROCESSING", the loop test
StateProcessing(state_name) == state_name = "PROCESSING"
\* variant: the state compared with a name the service never reports
StateFailedOtherName(state_name) == state_name = "FAILURE"
\* video_file.state.name == "FAILED"
StateFailed(state_name) == state_name = "FAILED"

KV(k, v) == <<S(k), COLON>> \o v
Obj1(a) == <<LB>> \o a \o <<RB>>
Obj2(a, b) == <<LB>> \o a \o <<COMMA, SP>> \o b \o <<RB>>
Obj3(a, b, c) == <<LB>> \o a \o <<COMMA, SP>> \o b \o <<COMMA, SP>> \o c \o <<RB>>

FullAnswer ==
    Obj3(KV("pet_detected", <<TRUELIT>>),
         KV("species", <<S("dog")>>),
         KV("overall_assessment",
            Obj2(KV("distress_score", <<N(80)>>), KV("zone", <<S("green")>>))))

ResponseTexts ==
    {FullAnswer,
     <<LB, RB>>,
     <<X, SP, FENCE, JSONTAG, NL>> \o FullAnswer \o <<NL, FENCE>>,
     <<X, SP>> \o FullAnswer \o <<SP, X>>,
     Obj1(KV("interpret_lines",
             <<LK>> \o Obj1(KV("first_person_interpretation", <<S("hi")>>)) \o <<RK>>)),
     \* no pet
     Obj1(KV("pet_detected", <<FALSELIT>>)),
     Obj2(KV("pet_detected", <<FALSELIT>>), KV("message", <<S("Only a sofa")>>)),
     Obj1(KV("pet_detected", <<N(0)>>)),
     Obj1(KV("pet_detected", <<NULLLIT>>)),
     Obj3(KV("pet_detected", <<FALSELIT>>), KV("error", <<TRUELIT>>),
          KV("error_type", <<S("rate_limited")>>)),
     \* an answer that carries an error key itself
     Obj2(KV("error", <<TRUELIT>>), KV("error_type", <<S("rate_limited")>>)),
     Obj2(KV("error", <<FALSELIT>>), KV("error_type", <<S("parse_error")>>)),
     Obj3(KV("error", <<TRUELIT>>), KV("error_type", <<S("parse_error")>>),
          KV("species", <<S("dog")>>)),
     Obj3(KV("error", <<TRUELIT>>), KV("error_type", <<S("parse_error")>>),
          KV("pet_detected", <<FALSELIT>>)),
     \* text no strategy parses
     <<>>, <<X, SP, X>>, <<LB, X, RB>>, <<FENCE, X, FENCE>>,
     \* JSON that is not an object
     <<N(42)>>, <<LK, RK>>, <<NULLLIT>>, <<S("fine")>>,
     \* objects the normalizer raises on
     Obj1(KV("overall_assessment", <<N(5)>>)),
     Obj1(KV("overall_assessment", Obj1(KV("distress_score", <<S("high")>>)))),
     Obj1(KV("interpret_lines", <<N(1)>>))}

ModelUsed == W("gemini-2.0-flash")
AnalysisVersion == W("etho-v13-gemini")

\* variant: the remote message is dropped for the fallback
NoPetResultFallbackOnly(result) ==
    Dict([error |-> Bool(TRUE),
          error_type |-> W("no_pet_detected"),
          message |-> W("No pet detected in video"),
          _model_used |-> ModelUsed,
          _from_cache |-> Bool(FALSE)])

\* the dict returned when pet_detected == False
NoPetResult(result) ==
    Dict([error |-> Bool(TRUE),
          error_type |-> W("no_pet_detected"),
          message |-> GetOr(result, "message", W("No pet detected in video")),
          _model_used |-> ModelUsed,
          _from_cache |-> Bool(FALSE)])

\* the dict the except clause returns for the exception with message msg
FailedResult(msg) ==
    Dict([error |-> Bool(TRUE),
          error_type |-> W("analysis_failed"),
          message |-> msg,
          _model_used |-> ModelUsed,
          _from_cache |-> Bool(FALSE)])

\* the three metadata assignments on the normalized result
WithMetadata(result) ==
    Dict(Put(Put(Put(result.m, "_model_used", ModelUsed),
                 "_from_cache", Bool(FALSE)),
             "_analysis_version", AnalysisVersion))

\* variant: the check looks for a kind the extractor never writes
IsParseErrorOtherKind(result) ==
    Truthy(Get(result, "error")) /\ Get(result, "error_type") = W("json_error")
\* result.get("error") and result.get("error_type") == "parse_error"
IsParseError(result) ==
    Truthy(Get(result, "error")) /\ Get(result, "error_type") = W("parse_error")

\* ------------------------------------------------------------------------
\* State
\* ------------------------------------------------------------------------
VARIABLES
    \* a call of parse_json_response
    p_pc,           \* "call", "done"
    p_text,         \* response_text
    p_out,          \* the value returned
    \* two calls of validate_and_enrich_response, the second on the first's output
    n_pc,           \* "call", "once", "twice"
    n_arg,          \* result as passed in
    n_out1,         \* outcome of the first call
    n_out2,         \* outcome of the second call
    \* one request of analyze_video
    pc,             \* the statement analyze_video is at
    api_key,        \* whether GEMINI_API_KEY is set
    video_file,     \* analyze_video's video_file: "None" or "file"
    up_file,        \* upload_video_to_gemini's video_file: "None" or "file"
    fstate,         \* video_file.state.name as last read
    remote_file,    \* the uploaded file on the remote side: "none", "stored", "deleted"
    polls,          \* number of genai.get_file calls
    slept,          \* time.sleep(2) has run since the state was last read
    exc,            \* the exception in flight
    fault,          \* the exception raised by configuration, upload, poll or inference
    uncaught,       \* the exception in flight passed the except clause
    response_text,  \* response.text
    result,         \* analyze_video's result
    ret,            \* the value of the return statement that ran
    returned,       \* the value the caller received
    n_upload,       \* calls of genai.upload_file
    n_infer,        \* calls of model.generate_content
    n_parse,        \* calls of parse_json_response
    n_norm,         \* calls of validate_and_enrich_response
    n_delete        \* calls of genai.delete_file

pvars == <<p_pc, p_text, p_out>>
nvars == <<n_pc, n_arg, n_out1, n_out2>>
ovars == <<pc, api_key, video_file, up_file, fstate, remote_file, polls, slept, exc,
           fault, uncaught, response_text, result, ret, returned,
           n_upload, n_infer, n_parse, n_norm, n_delete>>
vars == <<pvars, nvars, ovars>>

\* no value yet
Unset == [t |-> "unset"]

\* ------------------------------------------------------------------------
\* The extractor on its own
\* ------------------------------------------------------------------------
ParseIdle == p_pc = "idle" /\ p_text = <<>> /\ p_out = Unset
ParseInit == p_pc = "call" /\ p_text \in Texts /\ p_out = Unset

ParseCall ==
    /\ p_pc = "call"
    /\ p_out' = parse_json_response(p_text)
    /\ p_pc' = "done"
    /\ UNCHANGED <<p_text, nvars, ovars>>

\* ------------------------------------------------------------------------
\* The normalizer on its own
\* ------------------------------------------------------------------------
NormIdle == n_pc = "idle" /\ n_arg = Unset /\ n_out1 = Unset /\ n_out2 = Unset
NormInit == n_pc = "call" /\ n_arg \in NormInputs /\ n_out1 = Unset /\ n_out2 = Unset

NormFirst ==
    /\ n_pc = "call"
    /\ n_out1' = validate_and_enrich_response(n_arg)
    /\ n_pc' = "once"
    /\ UNCHANGED <<n_arg, n_out2, pvars, ovars>>

NormSecond ==
    /\ n_pc = "once"
    /\ ~n_out1.raised
    /\ n_out2' = validate_and_enrich_response(n_out1.v)
    /\ n_pc' = "twice"
    /\ UNCHANGED <<n_arg, n_out1, pvars, ovars>>

\* ------------------------------------------------------------------------
\* analyze_video
\* ------------------------------------------------------------------------
OrchRest ==
    /\ video_file = "None" /\ up_file = "None" /\ fstate = "NONE"
    /\ remote_file = "none" /\ polls = 0 /\ slept = FALSE
    /\ exc = Unset /\ fault = Unset /\ uncaught = FALSE /\ response_text = <<>>
    /\ result = Unset /\ ret = Unset /\ returned = Unset
    /\ n_upload = 0 /\ n_infer = 0 /\ n_parse = 0 /\ n_norm = 0 /\ n_delete = 0

OrchIdle == pc = "idle" /\ api_key = TRUE /\ OrchRest
\* video_file = None, before the try
OrchInit == pc = "start" /\ api_key \in BOOLEAN /\ OrchRest

MissingKey == Exc("ValueError", "GEMINI_API_KEY environment variable not set")
ProcessingFailed == Exc("ValueError", "Video processing failed: FAILED")

\* get_gemini_client()
Configure ==
    /\ pc = "start"
    /\ IF api_key
       THEN pc' = "upload" /\ UNCHANGED <<exc, fault>>
       ELSE pc' = "except" /\ exc' = MissingKey /\ fault' = MissingKey
    /\ UNCHANGED <<uncaught, api_key, video_file, up_file, fstate, remote_file, polls, slept,
                   response_text, result, ret, returned,
                   n_upload, n_infer, n_parse, n_norm, n_delete, pvars, nvars>>

\* genai.upload_file(...) in upload_video_to_gemini
UploadFile ==
    /\ pc = "upload"
    /\ n_upload' = n_upload + 1
    /\ \/ \E f \in Faults :
            /\ pc' = "except" /\ exc' = f /\ fault' = f
            /\ UNCHANGED <<up_file, fstate, remote_file>>
       \/ \E st \in {"PROCESSING", "ACTIVE", "FAILED"} :
            /\ up_file' = "file" /\ fstate' = st /\ remote_file' = "stored"
            /\ pc' = "poll"
            /\ UNCHANGED <<exc, fault>>
    /\ UNCHANGED <<uncaught, api_key, video_file, polls, slept, response_text, result, ret,
                   returned, n_infer, n_parse, n_norm, n_delete, pvars, nvars>>

\* variant: the loop body goes to get_file without the sleep
SleepSkipped ==
    /\ pc = "poll"
    /\ StateProcessing(fstate)
    /\ pc' = "get_file"
    /\ UNCHANGED <<uncaught, api_key, video_file, up_file, fstate, remote_file, polls, slept,
                   exc, fault, response_text, result, ret, returned,
                   n_upload, n_infer, n_parse, n_norm, n_delete, pvars, nvars>>

\* time.sleep(2) in the body of the while loop
Sleep ==
    /\ pc = "poll"
    /\ StateProcessing(fstate)
    /\ slept' = TRUE
    /\ pc' = "get_file"
    /\ UNCHANGED <<uncaught, api_key, video_file, up_file, fstate, remote_file, polls, exc, fault,
                   response_text, result, ret, returned,
                   n_upload, n_infer, n_parse, n_norm, n_delete, pvars, nvars>>

\* video_file = genai.get_file(video_file.name)
GetFile ==
    /\ pc = "get_file"
    /\ polls' = polls + 1
    /\ \/ \E f \in Faults :
            /\ pc' = "except" /\ exc' = f /\ fault' = f
            /\ UNCHANGED <<fstate, slept>>
       \/ \E st \in {"PROCESSING", "ACTIVE", "FAILED"} :
            /\ st = "PROCESSING" => polls < MaxPolls
            /\ fstate' = st /\ slept' = FALSE
            /\ pc' = "poll"
            /\ UNCHANGED <<exc, fault>>
    /\ UNCHANGED <<uncaught, api_key, video_file, up_file, remote_file, response_text, result, ret,
                   returned, n_upload, n_infer, n_parse, n_norm, n_delete, pvars, nvars>>

\* the FAILED check after the loop, then the return into analyze_video
CheckState ==
    /\ pc = "poll"
    /\ ~StateProcessing(fstate)
    /\ IF StateFailed(fstate)
       THEN /\ pc' = "except"
            /\ exc' = ProcessingFailed /\ fault' = ProcessingFailed
            /\ UNCHANGED video_file
       ELSE /\ video_file' = up_file
            /\ pc' = "infer"
            /\ UNCHANGED <<exc, fault>>
    /\ UNCHANGED <<uncaught, api_key, up_file, fstate, remote_file, polls, slept,
                   response_text, result, ret, returned,
                   n_upload, n_infer, n_parse, n_norm, n_delete, pvars, nvars>>

\* analyze_video_with_gemini: model.generate_content(...), response.text
GenerateContent ==
    /\ pc = "infer"
    /\ n_infer' = n_infer + 1
    /\ \/ \E f \in Faults :
            /\ pc' = "except" /\ exc' = f /\ fault' = f
            /\ UNCHANGED response_text
       \/ \E text \in ResponseTexts :
            /\ response_text' = text
            /\ pc' = "extract"
            /\ UNCHANGED <<exc, fault>>
    /\ UNCHANGED <<uncaught, api_key, video_file, up_file, fstate, remote_file, polls, slept,
                   result, ret, returned,
                   n_upload, n_parse, n_norm, n_delete, pvars, nvars>>

\* result = parse_json_response(response_text)
Extract ==
    /\ pc = "extract"
    /\ n_parse' = n_parse + 1
    /\ result' = parse_json_response(response_text)
    /\ pc' = "classify"
    /\ UNCHANGED <<uncaught, api_key, video_file, up_file, fstate, remote_file, polls, slept,
                   exc, fault, response_text, ret, returned,
                   n_upload, n_infer, n_norm, n_delete, pvars, nvars>>

NoGet == Exc("AttributeError", "object has no attribute 'get'")

\* the parse-error check and the pet_detected check
Classify ==
    /\ pc = "classify"
    /\ IF ~IsDict(result)
       THEN pc' = "except" /\ exc' = NoGet /\ UNCHANGED ret
       ELSE IF IsParseError(result)
       THEN pc' = "finally" /\ ret' = result /\ UNCHANGED exc
       ELSE IF EqFalse(Get(result, "pet_detected"))
       THEN pc' = "finally" /\ ret' = NoPetResult(result) /\ UNCHANGED exc
       ELSE pc' = "normalize" /\ UNCHANGED <<ret, exc>>
    /\ UNCHANGED <<uncaught, api_key, video_file, up_file, fstate, remote_file, polls, slept,
                   fault, response_text, result, returned,
                   n_upload, n_infer, n_parse, n_norm, n_delete, pvars, nvars>>

\* validate_and_enrich_response(result), the metadata, return result
Normalize ==
    /\ pc = "normalize"
    /\ n_norm' = n_norm + 1
    /\ LET r == validate_and_enrich_response(result)
       IN IF r.raised
          THEN pc' = "except" /\ exc' = Exc(r.exc, r.exc) /\ UNCHANGED <<result, ret>>
          ELSE /\ result' = WithMetadata(r.v)
               /\ ret' = WithMetadata(r.v)
               /\ pc' = "finally"
               /\ UNCHANGED exc
    /\ UNCHANGED <<uncaught, api_key, video_file, up_file, fstate, remote_file, polls, slept,
                   fault, response_text, returned,
                   n_upload, n_infer, n_parse, n_delete, pvars, nvars>>

\* except Exception as e: return the analysis_failed dict with str(e)
Except ==
    /\ pc = "except"
    /\ IF Catches(exc.cls)
       THEN ret' = FailedResult(W(exc.msg)) /\ UNCHANGED uncaught
       ELSE uncaught' = TRUE /\ UNCHANGED ret
    /\ pc' = "finally"
    /\ UNCHANGED <<api_key, video_file, up_file, fstate, remote_file, polls, slept,
                   exc, fault, response_text, result, returned,
                   n_upload, n_infer, n_parse, n_norm, n_delete, pvars, nvars>>

\* finally: delete the uploaded file if video_file is set; the caller gets ret
Finally ==
    /\ pc = "finally"
    /\ IF video_file # "None"
       THEN /\ n_delete' = n_delete + 1
            /\ \E deleted \in BOOLEAN :
                 remote_file' = IF deleted THEN "deleted" ELSE remote_file
       ELSE UNCHANGED <<n_delete, remote_file>>
    /\ IF uncaught
       THEN pc' = "raised" /\ UNCHANGED returned
       ELSE pc' = "done" /\ returned' = ret
    /\ UNCHANGED <<uncaught, api_key, video_file, up_file, fstate, polls, slept,
                   exc, fault, response_text, result, ret,
                   n_upload, n_infer, n_parse, n_norm, pvars, nvars>>

\* ------------------------------------------------------------------------
\* Specifications
\* ------------------------------------------------------------------------
Init == OrchInit /\ ParseIdle /\ NormIdle
Next ==
    \/ Configure \/ UploadFile \/ Sleep \/ GetFile \/ CheckState
    \/ GenerateContent \/ Extract \/ Classify \/ Normalize \/ Except \/ Finally
Spec == Init /\ [][Next]_vars

\* the statements of analyze_video and of the functions it calls
Statements ==
    {"start", "upload", "poll", "get_file", "infer", "extract", "classify",
     "normalize", "except", "finally"}

\* the call leaves the statement it is at
Proceed == pc \in Statements /\ pc' \in (Statements \cup {"done", "raised"}) \ {pc}

\* analyze_video is one sequential call: the statement it is at runs, and
\* every remote call returns or raises (the inference call within its
\* timeout of 300); the state stops being PROCESSING within MaxPolls reads
SpecLive == Init /\ [][Next]_vars /\ WF_pc(Proceed)

InitParse == ParseInit /\ NormIdle /\ OrchIdle
NextParse == ParseCall
SpecParse == InitParse /\ [][NextParse]_vars

InitNorm == NormInit /\ ParseIdle /\ OrchIdle
NextNorm == NormFirst \/ NormSecond
SpecNorm == InitNorm /\ [][NextNorm]_vars

\* ------------------------------------------------------------------------
\* Vocabulary of the properties
\* ------------------------------------------------------------------------
\* analyze_video has returned to its caller, by return or by raising
Finished == pc \in {"done", "raised"}

\* the mapping carries the error tag
ErrorTagged(v) == IsDict(v) /\ ({"error", "error_type"} \cap DOMAIN v.m) # {}

\* the mapping carries the canonical analysis fields and the run metadata
\* of a completed analysis
Completed(v) ==
    /\ IsDict(v)
    /\ DOMAIN Defaults.m \subseteq DOMAIN v.m
    /\ {"_model_used", "_from_cache", "_analysis_version"} \subseteq DOMAIN v.m

\* an error result of the given kind
ErrorOfKind(v, kind) ==
    /\ IsDict(v)
    /\ {"error", "error_type", "message"} \subseteq DOMAIN v.m
    /\ v.m["error"] = Bool(TRUE)
    /\ v.m["error_type"] = W(kind)

\* ------------------------------------------------------------------------
\* C1  Whenever genai.upload_file returned a handle, analyze_video has called
\*     genai.delete_file by the time it returns, whatever the outcome - also
\*     when the poll ends in FAILED or a status poll raises.
\*     Fails: video_file of analyze_video is only assigned when
\*     upload_video_to_gemini returns, so a raise inside it skips the delete.
\* ------------------------------------------------------------------------
C1_ReleasedOnEveryOutcome ==
    (Finished /\ up_file = "file") => n_delete >= 1

\* ------------------------------------------------------------------------
\* C2  For an input whose overall_assessment holds an integer distress_score
\*     in 0..100, with any zone / zone_label or none, the output has
\*     (green, LOW) up to 33, (yellow, MODERATE) from 34 to 66 and
\*     (red, ELEVATED) from 67 on.
\* ------------------------------------------------------------------------
ScoredInput(v) ==
    /\ IsDict(v) /\ "overall_assessment" \in DOMAIN v.m
    /\ IsDict(v.m["overall_assessment"])
    /\ "distress_score" \in DOMAIN v.m["overall_assessment"].m
    /\ v.m["overall_assessment"].m["distress_score"].t = "num"
    /\ v.m["overall_assessment"].m["distress_score"].n \in 0..100

ScoreIn(v) == v.m["overall_assessment"].m["distress_score"].n
ZoneOut(v) == v.m["overall_assessment"].m["zone"]
LabelOut(v) == v.m["overall_assessment"].m["zone_label"]

C2_ZoneFromScore ==
    (n_pc \in {"once", "twice"} /\ ScoredInput(n_arg) /\ ~n_out1.raised) =>
        LET sc == ScoreIn(n_arg)
            out == n_out1.v
        IN /\ sc <= 33 => ZoneOut(out) = W("green") /\ LabelOut(out) = W("LOW")
           /\ (34 <= sc /\ sc <= 66) =>
                 ZoneOut(out) = W("yellow") /\ LabelOut(out) = W("MODERATE")
           /\ sc >= 67 => ZoneOut(out) = W("red") /\ LabelOut(out) = W("ELEVATED")

\* score 33 arrives labelled red / ELEVATED and leaves green / LOW
C2_Witness ==
    /\ n_pc = "once"
    /\ n_arg = Dict([overall_assessment |-> Assessment(Num(33), "red", "ELEVATED")])
    /\ ~n_out1.raised
    /\ ZoneOut(n_out1.v) = W("green") /\ LabelOut(n_out1.v) = W("LOW")

\* ------------------------------------------------------------------------
\* C3  What analyze_video returns never carries both the error tag and the
\*     analysis fields with the run metadata of a completed result.
\*     Fails: an answer with an error key whose error_type is not parse_error
\*     is normalized and returned with the error key still in it.
\* ------------------------------------------------------------------------
C3_ErrorOrAnalysisNeverBoth ==
    pc = "done" => ~(ErrorTagged(returned) /\ Completed(returned))

\* ------------------------------------------------------------------------
\* C4  Once the ingestion state read is FAILED, generate_content is not
\*     called in the request, and the request returns analysis_failed.
\* ------------------------------------------------------------------------
C4_FailedIngestionSkipsInference ==
    fstate = "FAILED" =>
        /\ n_infer = 0
        /\ Finished => (pc = "done" /\ ErrorOfKind(returned, "analysis_failed"))

\* the state left PROCESSING for FAILED and the request has returned
C4_Witness ==
    /\ pc = "done" /\ fstate = "FAILED" /\ polls >= 1
    /\ ErrorOfKind(returned, "analysis_failed")

\* ------------------------------------------------------------------------
\* C5  (as stated) When the extracted mapping has pet_detected false, the
\*     request returns an error result of kind no_subject_detected.
\*     Fails: the kind the code returns is no_pet_detected.
\* ------------------------------------------------------------------------
PetFalse(v) ==
    IsDict(v) /\ "pet_detected" \in DOMAIN v.m /\ v.m["pet_detected"] = Bool(FALSE)

C5_NoSubjectDetectedKind ==
    (pc = "done" /\ PetFalse(result)) =>
        ErrorOfKind(returned, "no_subject_detected")

\* C5  (amended) When the extracted mapping has pet_detected false, the
\*     normalizer is not run and the request returns an error result of kind
\*     no_pet_detected with the remote message or the fallback and the
\*     metadata _model_used and _from_cache - or, when the mapping is itself
\*     tagged error with error_type parse_error, that mapping unchanged.
C5_NoPetDetectedKind ==
    PetFalse(result) =>
        /\ n_norm = 0
        /\ Finished =>
             /\ pc = "done"
             /\ IF Truthy(Get(result, "error")) /\ Get(result, "error_type") = W("parse_error")
                THEN returned = result
                ELSE /\ ErrorOfKind(returned, "no_pet_detected")
                     /\ DOMAIN returned.m =
                          {"error", "error_type", "message", "_model_used", "_from_cache"}
                     /\ returned.m["message"] =
                          (IF "message" \in DOMAIN result.m THEN result.m["message"]
                           ELSE W("No pet detected in video"))
                     /\ returned.m["_model_used"] = W("gemini-2.0-flash")
                     /\ returned.m["_from_cache"] = Bool(FALSE)

\* pet_detected false with a remote message, returned as no_pet_detected
C5_Witness ==
    /\ pc = "done" /\ PetFalse(result)
    /\ ErrorOfKind(returned, "no_pet_detected")
    /\ returned.m["message"] = W("Only a sofa")

\* ------------------------------------------------------------------------
\* C6  A fault raised by the configuration, the upload, a status poll or
\*     the inference never reaches the caller: the request returns an
\*     error result of kind analysis_failed whose message is str(fault).
\* ------------------------------------------------------------------------
C6_FaultsBecomeAnalysisFailed ==
    (Finished /\ fault # Unset) =>
        /\ pc = "done"
        /\ ErrorOfKind(returned, "analysis_failed")
        /\ returned.m["message"] = W(fault.msg)

\* the inference timed out after an upload and the caller got the message
C6_Witness ==
    /\ pc = "done" /\ fault = Exc("DeadlineExceeded", "timeout") /\ n_infer = 1
    /\ ErrorOfKind(returned, "analysis_failed")
    /\ returned.m["message"] = W("timeout")

\* ------------------------------------------------------------------------
\* C7  parse_json_response returns a mapping for every text: the parsed
\*     JSON object or the failure object.
\*     Fails: text that is valid JSON but no object (a number, a string, a
\*     list, null) is returned as json.loads decoded it.
\* ------------------------------------------------------------------------
C7_AlwaysAMapping ==
    p_pc = "done" => IsDict(p_out)

\* ------------------------------------------------------------------------
\* C8  The result is that of the first strategy that parses, in the order
\*     whole text, interior of the first fenced block, span from the first
\*     '{' to the last '}'; when none parses it is the failure object with
\*     kind parse_error, the fixed message and the first 1000 characters.
\* ------------------------------------------------------------------------
\* text without the whitespace at its two ends
RECURSIVE Strip(_)
Strip(text) ==
    IF text = <<>> THEN text
    ELSE IF IsReWs(Head(text)) THEN Strip(Tail(text))
    ELSE IF IsReWs(text[Len(text)]) THEN Strip(SubSeq(text, 1, Len(text) - 1))
    ELSE text

\* there is a fenced block: a fence with another fence after it
HasBlock(text) ==
    \E i, j \in 1..Len(text) : i < j /\ text[i] = FENCE /\ text[j] = FENCE

\* what stands between the first fence and the fence after it, less the
\* json tag and the whitespace around
BlockInterior(text) ==
    LET i == CHOOSE a \in 1..Len(text) :
                 text[a] = FENCE /\ \A b \in 1..(a - 1) : text[b] # FENCE
        j == CHOOSE a \in (i + 1)..Len(text) :
                 text[a] = FENCE /\ \A b \in (i + 1)..(a - 1) : text[b] # FENCE
        inner == SubSeq(text, i + 1, j - 1)
    IN Strip(IF inner # <<>> /\ Head(inner) = JSONTAG THEN Tail(inner) ELSE inner)

\* there is a '{' with a '}' after it
HasSpan(text) ==
    \E i, j \in 1..Len(text) : i < j /\ text[i] = LB /\ text[j] = RB

\* from the first '{' to the last '}'
SpanText(text) ==
    LET i == CHOOSE a \in 1..Len(text) :
                 text[a] = LB /\ \A b \in 1..(a - 1) : text[b] # LB
        j == CHOOSE a \in 1..Len(text) :
                 text[a] = RB /\ \A b \in (a + 1)..Len(text) : text[b] # RB
    IN SubSeq(text, i, j)

Strategy1(text) == json_loads(text)
Strategy2(text) == IF HasBlock(text) THEN json_loads(BlockInterior(text)) ELSE Fail
Strategy3(text) == IF HasSpan(text) THEN json_loads(SpanText(text)) ELSE Fail

\* the failure object for text: kind, a non-empty message, the first 1000
IsFailureFor(v, text) ==
    /\ IsDict(v)
    /\ DOMAIN v.m = {"error", "error_type", "message", "raw_response"}
    /\ v.m["error"] = Bool(TRUE)
    /\ v.m["error_type"] = W("parse_error")
    /\ v.m["message"] = W("Failed to parse JSON response")
    /\ Len(v.m["message"].s) > 0
    /\ v.m["raw_response"].t = "str"
    /\ LET raw == v.m["raw_response"].s
       IN /\ Len(raw) = (IF Len(text) < 1000 THEN Len(text) ELSE 1000)
          /\ \A i \in 1..Len(raw) : raw[i] = text[i]

C8_FirstStrategyThatParses ==
    p_pc = "done" =>
        LET s1 == Strategy1(p_text)
            s2 == Strategy2(p_text)
            s3 == Strategy3(p_text)
        IN IF s1.ok THEN p_out = s1.v
           ELSE IF s2.ok THEN p_out = s2.v
           ELSE IF s3.ok THEN p_out = s3.v
           ELSE IsFailureFor(p_out, p_text)

\* the whole text does not parse, the fenced block and the brace span both
\* do, to different values, and the block's value is returned
C8_Witness ==
    /\ p_pc = "done"
    /\ ~Strategy1(p_text).ok
    /\ Strategy2(p_text).ok /\ Strategy3(p_text).ok
    /\ Strategy2(p_text).v # Strategy3(p_text).v
    /\ p_out = Strategy2(p_text).v

\* ------------------------------------------------------------------------
\* C9  Applying validate_and_enrich_response to its own output returns a
\*     mapping equal to that output.
\* ------------------------------------------------------------------------
C9_Idempotent ==
    n_pc = "twice" => (~n_out2.raised /\ n_out2.v = n_out1.v)

\* a first application that filled defaults, corrected the zone and cut a
\* line, followed by a second one
C9_Witness ==
    /\ n_pc = "twice"
    /\ n_arg = Dict([interpret_lines |->
                        List(<<Dict([first_person_interpretation |->
                                        Str(LineText(WordCap + 2, <<SP>>, FALSE, FALSE))])>>),
                     overall_assessment |-> Assessment(Num(10), "red", "ELEVATED")])
    /\ n_out1.v # n_arg
    /\ n_out2.v = n_out1.v

\* ------------------------------------------------------------------------
\* C10 Every interpret_lines entry with a first_person_interpretation text
\*     of more than 6 words leaves with exactly its first 6 words joined by
\*     single spaces; one of 6 words or fewer leaves as it came; afterwards
\*     no such text has more than 6 words.
\* ------------------------------------------------------------------------
\* the positions where a word starts, and where one ends
WordStarts(text) ==
    {i \in 1..Len(text) : ~IsSpace(text[i]) /\ (i = 1 \/ IsSpace(text[i - 1]))}
WordEnds(text) ==
    {i \in 1..Len(text) : ~IsSpace(text[i]) /\ (i = Len(text) \/ IsSpace(text[i + 1]))}
NumWords(text) == Cardinality(WordStarts(text))

\* the k-th word of text
KthWord(text, k) ==
    LET a == CHOOSE i \in WordStarts(text) :
                 Cardinality({j \in WordStarts(text) : j < i}) = k - 1
        b == CHOOSE i \in WordEnds(text) :
                 Cardinality({j \in WordEnds(text) : j < i}) = k - 1
    IN SubSeq(text, a, b)

\* the first 6 words of text with one space between neighbours
FirstSix(text) ==
    KthWord(text, 1) \o <<SP>> \o KthWord(text, 2) \o <<SP>> \o KthWord(text, 3)
        \o <<SP>> \o KthWord(text, 4) \o <<SP>> \o KthWord(text, 5)
        \o <<SP>> \o KthWord(text, 6)

\* the entry is a mapping with a first_person_interpretation text
HasText(entry) ==
    /\ IsDict(entry) /\ "first_person_interpretation" \in DOMAIN entry.m
    /\ entry.m["first_person_interpretation"].t = "str"
TextOf(entry) == entry.m["first_person_interpretation"].s

ListOfLines(v) ==
    IsDict(v) /\ "interpret_lines" \in DOMAIN v.m /\ v.m["interpret_lines"].t = "list"
LinesOf(v) == v.m["interpret_lines"].items

C10_LineCap ==
    (n_pc \in {"once", "twice"} /\ ~n_out1.raised /\ ListOfLines(n_arg)) =>
        /\ ListOfLines(n_out1.v)
        /\ Len(LinesOf(n_out1.v)) = Len(LinesOf(n_arg))
        /\ \A i \in 1..Len(LinesOf(n_arg)) :
             HasText(LinesOf(n_arg)[i]) =>
                LET before == TextOf(LinesOf(n_arg)[i])
                    after == TextOf(LinesOf(n_out1.v)[i])
                IN /\ HasText(LinesOf(n_out1.v)[i])
                   /\ NumWords(before) > 6 => after = FirstSix(before)
                   /\ NumWords(before) <= 6 => after = before
                   /\ NumWords(after) <= 6

\* a line of 8 words two spaces apart leaves with 6 words one space apart
C10_Witness ==
    /\ n_pc = "once" /\ ~n_out1.raised /\ ListOfLines(n_arg)
    /\ \E i \in 1..Len(LinesOf(n_arg)) :
         /\ HasText(LinesOf(n_arg)[i])
         /\ TextOf(LinesOf(n_arg)[i]) = LineText(8, <<SP, SP>>, FALSE, FALSE)
         /\ TextOf(LinesOf(n_out1.v)[i]) = LineText(6, <<SP>>, FALSE, FALSE)

\* ------------------------------------------------------------------------
\* C11 After the normalizer every canonical top-level key is there; a key
\*     the input lacks holds its default (overall_assessment: score 50,
\*     yellow, MODERATE, medium); where input and defaults both hold a
\*     mapping, the default sub-keys the input lacks are inserted and the
\*     sub-keys it has keep their value - zone and zone_label apart, which
\*     are recomputed; nothing further down changes.
\* ------------------------------------------------------------------------
CanonicalKeys ==
    {"pet_detected", "species", "breed_detected", "morphology_type",
     "morphology_adjustments_applied", "video_type", "video_context",
     "overall_assessment", "visual_analysis", "audio_analysis", "timeline",
     "interpret_lines", "advisory"}
NestedKeys == {"overall_assessment", "visual_analysis", "audio_analysis", "advisory"}
Recomputed(k) == IF k = "overall_assessment" THEN {"zone", "zone_label"} ELSE {}

\* the documented defaults of overall_assessment
DefaultAssessment(v) ==
    /\ IsDict(v)
    /\ DOMAIN v.m = {"distress_score", "zone", "zone_label", "confidence",
                     "primary_state", "summary"}
    /\ v.m["distress_score"] = Num(50)
    /\ v.m["zone"] = W("yellow")
    /\ v.m["zone_label"] = W("MODERATE")
    /\ v.m["confidence"] = W("medium")
    /\ v.m["primary_state"] = W("alert")
    /\ v.m["summary"] = W("Analysis in progress")

C11_DefaultsFilledOneLevel ==
    (n_pc \in {"once", "twice"} /\ ~n_out1.raised) =>
        LET in == n_arg.m
            out == n_out1.v.m
        IN /\ DOMAIN out = (DOMAIN in) \cup CanonicalKeys
           /\ \A k \in CanonicalKeys \ DOMAIN in :
                /\ out[k] = Defaults.m[k]
                /\ k = "overall_assessment" => DefaultAssessment(out[k])
                /\ k \in {"timeline", "interpret_lines"} => out[k] = List(<<>>)
           /\ \A k \in NestedKeys \cap DOMAIN in :
                IsDict(in[k]) =>
                    /\ IsDict(out[k])
                    /\ DOMAIN out[k].m = (DOMAIN in[k].m) \cup (DOMAIN Defaults.m[k].m)
                    /\ \A sk \in (DOMAIN in[k].m) \ Recomputed(k) :
                         out[k].m[sk] = in[k].m[sk]
                    /\ \A sk \in (DOMAIN out[k].m) \ ((DOMAIN in[k].m) \cup Recomputed(k)) :
                         out[k].m[sk] = Defaults.m[k].m[sk]

\* a mapping without overall_assessment whose visual_analysis holds one
\* default sub-key and a mapping of its own leaves with both filled in
C11_Witness ==
    /\ n_pc = "once" /\ ~n_out1.raised
    /\ n_arg = Dict([visual_analysis |-> Sample["visual_analysis"]])
    /\ DefaultAssessment(n_out1.v.m["overall_assessment"])
    /\ n_out1.v.m["visual_analysis"] =
         Dict([body_posture |-> W("crouched"),
               own |-> Dict([confidence |-> None]),
               facs_codes_detected |-> List(<<>>),
               key_observations |-> List(<<>>),
               confidence |-> W("medium")])

\* ------------------------------------------------------------------------
\* C12 When none of the three strategies parses the remote text,
\*     analyze_video hands the caller the extractor's failure object as it
\*     is - the four keys of the failure, no defaults, no zone, no run
\*     metadata - and validate_and_enrich_response is not called in the
\*     request.
\* ------------------------------------------------------------------------
NoStrategyParses(text) ==
    ~Strategy1(text).ok /\ ~Strategy2(text).ok /\ ~Strategy3(text).ok

C12_ParseFailureReturnedAsIs ==
    (n_parse = 1 /\ NoStrategyParses(response_text)) =>
        /\ n_norm = 0
        /\ IsFailureFor(result, response_text)
        /\ pc \notin {"normalize", "except", "raised"}
        /\ pc = "done" => returned = result

\* words that are no JSON came back, the caller holds the failure object
\* and the uploaded file was deleted
C12_Witness ==
    /\ pc = "done" /\ response_text = <<X, SP, X>>
    /\ n_parse = 1 /\ n_norm = 0 /\ n_delete = 1
    /\ IsFailureFor(returned, response_text)
    /\ returned.m["raw_response"] = Str(<<X, SP, X>>)

\* ------------------------------------------------------------------------
\* C13 The caller gets kind parse_error only when none of the three
\*     strategies parsed the remote text, and kind analysis_failed only when
\*     configuration, upload, a status poll or inference raised or the
\*     ingestion ended in FAILED; a remote text that one of the strategies
\*     parses is reported as neither, whatever it holds.
\*     Fails: text that parses to a value without .get (42, [], null, "..")
\*     or to an object the normalizer raises on ends in the except clause
\*     and comes back as analysis_failed; an object that carries error and
\*     error_type parse_error itself comes back as parse_error.
\* ------------------------------------------------------------------------
KindOf(v, kind) ==
    IsDict(v) /\ "error_type" \in DOMAIN v.m /\ v.m["error_type"] = W(kind)

C13_KindsOnlyFromTheirCause ==
    pc = "done" =>
        /\ KindOf(returned, "parse_error") =>
                n_parse = 1 /\ NoStrategyParses(response_text)
        /\ KindOf(returned, "analysis_failed") =>
                fault # Unset
        /\ (n_parse = 1 /\ ~NoStrategyParses(response_text)) =>
                /\ ~KindOf(returned, "parse_error")
                /\ ~KindOf(returned, "analysis_failed")

\* ------------------------------------------------------------------------
\* C14 Within one request the steps come in the order upload, status polls,
\*     inference, extraction, normalization, return: a status poll only
\*     after the upload and before inference; inference only once the last
\*     status read is not PROCESSING; extraction only after inference gave
\*     its text; normalization only after extraction gave a mapping; upload,
\*     inference, extraction and normalization at most once each; and once
\*     something was raised no step runs again - nothing is retried.
\* ------------------------------------------------------------------------
StepOrder ==
    /\ n_upload' # n_upload =>
            /\ n_upload = 0 /\ polls = 0 /\ n_infer = 0 /\ n_parse = 0 /\ n_norm = 0
            /\ exc = Unset
    /\ polls' # polls =>
            /\ n_upload = 1 /\ n_infer = 0 /\ n_parse = 0 /\ n_norm = 0
            /\ fstate = "PROCESSING"
            /\ exc = Unset
    /\ n_infer' # n_infer =>
            /\ n_upload = 1 /\ n_infer = 0 /\ n_parse = 0 /\ n_norm = 0
            /\ fstate \notin {"NONE", "PROCESSING"}
            /\ exc = Unset
    /\ n_parse' # n_parse =>
            /\ n_upload = 1 /\ n_infer = 1 /\ n_parse = 0 /\ n_norm = 0
            /\ exc = Unset
    /\ n_norm' # n_norm =>
            /\ n_upload = 1 /\ n_infer = 1 /\ n_parse = 1 /\ n_norm = 0
            /\ IsDict(result)
            /\ exc = Unset
    /\ exc # Unset =>
            /\ exc' = exc
            /\ UNCHANGED <<n_upload, polls, n_infer, n_parse, n_norm>>
            /\ pc' \in {"finally", "done", "raised"}
    /\ Finished => UNCHANGED vars

C14_StepsInOrder == [][StepOrder]_vars

\* a request that polled twice, inferred, extracted and normalized, each
\* once, and returned the completed analysis
C14_Witness ==
    /\ pc = "done" /\ exc = Unset
    /\ n_upload = 1 /\ polls = 2 /\ n_infer = 1 /\ n_parse = 1 /\ n_norm = 1
    /\ Completed(returned)

\* ------------------------------------------------------------------------
\* C15 Provided the remote state leaves PROCESSING and every remote call
\*     returns or raises, each request comes to its end, by a return or a
\*     raise; the loop reads the state again only after a sleep, sleeps only
\*     while the last state read is PROCESSING, and is left at the first
\*     state read that is not PROCESSING.
\* ------------------------------------------------------------------------
PollDiscipline ==
    /\ polls' # polls => slept /\ fstate = "PROCESSING"
    /\ (slept' /\ ~slept) => fstate = "PROCESSING"
    /\ (pc = "poll" /\ fstate # "PROCESSING") => pc' \in {"infer", "except"}

C15_Terminates == <>Finished /\ [][PollDiscipline]_vars

\* the state was PROCESSING at the upload and at the first read and ACTIVE
\* at the second, each read after a sleep, and the request returned
C15_Witness ==
    /\ Finished /\ returned # Unset
    /\ polls = 2 /\ fstate = "ACTIVE" /\ ~slept

====
